---- MODULE Spec2Model ----
(***************************************************************************)
(* State-machine model of the comparetool front end:                       *)
(*   pages/Home.jsx  (the Home component: state, handlers, rendering),     *)
(*   components/DiffViewer.jsx, CompareButton.jsx, StatusBar.jsx,          *)
(*   utils/api.js    (the requests Home issues).                           *)
(* Every handler runs to its first await as one step (JavaScript is        *)
(* single threaded); the continuation after the await is a second step     *)
(* taken when the request resolves or rejects.                             *)
(***************************************************************************)
EXTENDS Integers, Sequences, FiniteSets, TLC

VARIABLES oldFile, newFile, oldFileContent, newFileContent, fileSummary,
          oldFolder, newFolder, folderResult, selectedFolderDiff,
          loading, status, activeSource,
          readers, fileCalls, folderCalls

vars == <<oldFile, newFile, oldFileContent, newFileContent, fileSummary,
          oldFolder, newFolder, folderResult, selectedFolderDiff,
          loading, status, activeSource,
          readers, fileCalls, folderCalls>>

fileVars   == <<oldFile, newFile, oldFileContent, newFileContent, readers>>
folderVars == <<oldFolder, newFolder>>
viewVars   == <<fileSummary, folderResult, selectedFolderDiff, loading,
                status, activeSource>>
netVars    == <<fileCalls, folderCalls>>

(***************************************************************************)
(* Bounds of the model.                                                    *)
(***************************************************************************)
MaxFileCalls   == 2   \* compareFilesUpload requests pending at once
MaxFolderCalls == 2   \* compareFolders requests pending at once

\* JavaScript null (useState(null)); a record, so that it compares with records.
NULL == [isNull |-> TRUE]

(***************************************************************************)
(* Texts.  A JavaScript string is modelled run-length encoded: a sequence  *)
(* of runs [ch, n] (n >= 1, neighbouring runs of different characters), so *)
(* that strings of 200,000 characters keep their real length.              *)
(***************************************************************************)
Last(s) == s[Len(s)]
Front(s) == SubSeq(s, 1, Len(s) - 1)

RECURSIVE TextLen(_)
\* String.prototype.length
TextLen(t) == IF t = <<>> THEN 0 ELSE Head(t).n + TextLen(Tail(t))

RECURSIVE Slice(_, _)
\* text.slice(0, n)
Slice(t, n) ==
  IF t = <<>> \/ n <= 0 THEN <<>>
  ELSE IF Head(t).n <= n THEN <<Head(t)>> \o Slice(Tail(t), n - Head(t).n)
  ELSE <<[ch |-> Head(t).ch, n |-> n]>>

RECURSIVE Drop(_, _)
\* text.slice(n)
Drop(t, n) ==
  IF t = <<>> \/ n <= 0 THEN t
  ELSE IF Head(t).n <= n THEN Drop(Tail(t), n - Head(t).n)
  ELSE <<[ch |-> Head(t).ch, n |-> Head(t).n - n]>> \o Tail(t)

\* a + b on strings
Concat(a, b) ==
  IF a = <<>> THEN b
  ELSE IF b = <<>> THEN a
  ELSE IF Last(a).ch = Head(b).ch
       THEN Front(a) \o <<[ch |-> Head(b).ch, n |-> Last(a).n + Head(b).n]>> \o Tail(b)
       ELSE a \o b

RECURSIVE Str(_)
\* a string literal, given character by character
Str(chars) ==
  IF chars = <<>> THEN <<>>
  ELSE Concat(Str(Front(chars)), <<[ch |-> Last(chars), n |-> 1]>>)

\* ch repeated n times
Rep(ch, n) == IF n <= 0 THEN <<>> ELSE <<[ch |-> ch, n |-> n]>>

\* s occurs in t (t.includes(s))
Contains(t, s) ==
  \E k \in 0..TextLen(t) : Slice(Drop(t, k), TextLen(s)) = s /\ k + TextLen(s) <= TextLen(t)

(***************************************************************************)
(* components/DiffViewer.jsx                                               *)
(***************************************************************************)
MAX_CHARS == 200000

\* "\n\n...[truncated]"
TruncationMarker ==
  Str(<<"\n", "\n", ".", ".", ".", "[", "t", "r", "u", "n", "c", "a", "t", "e", "d", "]">>)

\* `oldText.length >= MAX_CHARS`: the comparison off by one
SafeTextOffByOne(text) ==
  IF TextLen(text) >= MAX_CHARS
  THEN Concat(Slice(text, MAX_CHARS), TruncationMarker)
  ELSE text

\* safeOld / safeNew.  Every text of the model is a string, so
\* typeof text === "string" is true.
SafeText(text) ==
  IF TextLen(text) > MAX_CHARS
  THEN Concat(Slice(text, MAX_CHARS), TruncationMarker)
  ELSE text

\* The props DiffViewer hands to ReactDiffViewer.
DiffViewer(oldText, newText) ==
  [oldValue |-> SafeText(oldText), newValue |-> SafeText(newText)]

(***************************************************************************)
(* The environment: the files the user can pick, the folder paths the user *)
(* can type, and what the backend can answer.                              *)
(***************************************************************************)
\* File objects of the <input type="file"> elements: an empty file, a file
\* of exactly MAX_CHARS characters and a file of one character more.
EmptyFile == [name |-> "empty.txt"]
CapFile   == [name |-> "cap.txt"]
OverFile  == [name |-> "over.txt"]

\* What FileReader.readAsText(file) yields (e.target.result).
FileText(file) ==
  IF file = EmptyFile THEN <<>>
  ELSE IF file = CapFile THEN Rep("x", MAX_CHARS)
  ELSE Concat(Rep("x", MAX_CHARS), Rep("y", 1))

\* Values of the OLD / NEW folder path inputs.
OldPaths == {"", "C:/cfg/old"}
NewPaths == {"", "C:/cfg/new"}
\* A second OLD folder, for comparisons of different path pairs.
OldPaths2 == OldPaths \cup {"C:/cfg/old2"}

\* A FileDiff of the /compare-folders response; component names are given
\* character by character.
FD(component, file, changed, summary) ==
  [component_name |-> component, file_name |-> file,
   has_changes |-> changed, summary |-> summary]

NoChanges == "No changes detected"
OneChange == "1 line(s) added; 1 line(s) removed"

\* ComparisonResult values of the backend (res.data of /compare-folders).
RespDigits ==
  [total_components |-> 2, components_with_changes |-> 2,
   file_diffs |-> << FD(<<"1", "0">>, "app.cfg", FALSE, NoChanges),
                     FD(<<"1", "0">>, "db.cfg", TRUE, OneChange),
                     FD(<<"2">>, "app.cfg", TRUE, OneChange) >>]
RespNames ==
  [total_components |-> 2, components_with_changes |-> 0,
   file_diffs |-> << FD(<<"b">>, "app.cfg", FALSE, NoChanges),
                     FD(<<"a">>, "app.cfg", FALSE, NoChanges) >>]
RespEmpty ==
  [total_components |-> 1, components_with_changes |-> 0, file_diffs |-> <<>>]
RespNoDiffs ==
  [total_components |-> 0, components_with_changes |-> 0]

FolderResponses == {RespDigits, RespNames, RespEmpty, RespNoDiffs}

\* res.data of /compare-files; an absent summary is the empty (falsy) string.
FileResponses == {[summary |-> OneChange], [summary |-> ""]}

\* What a rejected request carries: error.response?.data?.detail and
\* error.message ("" when absent).
Errors == {[detail |-> "Old folder not found", message |-> "Request failed with status code 404"],
           [detail |-> "", message |-> ""]}

\* a || b on strings
JsOr(a, b) == IF a # "" THEN a ELSE b

\* data.file_diffs, or <<>> when the field is absent (undefined)
FileDiffsOf(data) == IF "file_diffs" \in DOMAIN data THEN data.file_diffs ELSE <<>>

(***************************************************************************)
(* utils/api.js: the request each call posts.                              *)
(***************************************************************************)
compareFilesUpload(old, new) ==
  [url |-> "/compare-files", old_file |-> old, new_file |-> new]

compareFolders(old, new) ==
  [url |-> "/compare-folders", old_folder |-> old, new_folder |-> new]

(***************************************************************************)
(* pages/Home.jsx: what is derived from the state at each render.          *)
(***************************************************************************)
Digits == <<"0", "1", "2", "3", "4", "5", "6", "7", "8", "9">>
IsDigit(c) == \E d \in 1..10 : Digits[d] = c
DigitValue(c) == (CHOOSE d \in 1..10 : Digits[d] = c) - 1

RECURSIVE ToNumber(_)
\* the number a string of digits denotes
ToNumber(name) ==
  IF name = <<>> THEN 0 ELSE 10 * ToNumber(Front(name)) + DigitValue(Last(name))

\* A property key that is an array index (a canonical numeric string below
\* 2^32 - 1): JavaScript objects list such keys first, in ascending order.
\* Every canonical numeric string of up to 9 digits is one; the keys of the
\* model are shorter.
IsArrayIndex(name) ==
  /\ name # <<>>
  /\ Len(name) <= 9
  /\ \A i \in 1..Len(name) : IsDigit(name[i])
  /\ (Len(name) > 1 => name[1] # "0")

RECURSIVE SortByNumber(_)
\* the array-index keys of a set, ascending
SortByNumber(names) ==
  IF names = {} THEN <<>>
  ELSE LET least == CHOOSE n \in names : \A m \in names : ToNumber(n) <= ToNumber(m)
       IN <<least>> \o SortByNumber(names \ {least})

\* s without the elements that fail Keep, in order
SelectKeys(s, keepIndex) ==
  SelectSeq(s, LAMBDA k : IsArrayIndex(k) = keepIndex)

RECURSIVE BuildTree(_, _)
\* folderResult.file_diffs.forEach((fd) => { ... tree[fd.component_name].push(fd) })
\* An object is its keys in creation order and the value of each key.
BuildTree(tree, diffs) ==
  IF diffs = <<>> THEN tree
  ELSE LET fd == Head(diffs)
           c == fd.component_name
           known == \E i \in 1..Len(tree.keys) : tree.keys[i] = c
           next == IF known
                   THEN [keys |-> tree.keys,
                         value |-> [tree.value EXCEPT ![c] = Append(@, fd)]]
                   ELSE [keys |-> Append(tree.keys, c),
                         value |-> [k \in DOMAIN tree.value \cup {c} |->
                                      IF k = c THEN <<fd>> ELSE tree.value[k]]]
       IN BuildTree(next, Tail(diffs))

EmptyObject == [keys |-> <<>>, value |-> [k \in {} |-> <<>>]]

\* const folderTree = (() => { ... })()
folderTreeOf(result) ==
  IF result = NULL \/ "file_diffs" \notin DOMAIN result THEN EmptyObject
  ELSE BuildTree(EmptyObject, result.file_diffs)

folderTree == folderTreeOf(folderResult)

\* Object.entries(obj): array-index keys ascending, then the other keys in
\* creation order.
ObjectEntries(obj) ==
  LET indexKeys == SelectKeys(obj.keys, TRUE)
      order == SortByNumber({indexKeys[i] : i \in 1..Len(indexKeys)})
                 \o SelectKeys(obj.keys, FALSE)
  IN [i \in 1..Len(order) |-> [component |-> order[i], files |-> obj.value[order[i]]]]

\* The left panel: the components and their file rows, as displayed.
TreeRows == IF folderResult = NULL THEN <<>> ELSE ObjectEntries(folderTree)

viewerOldText == IF activeSource = "file" THEN oldFileContent ELSE <<>>
viewerNewText == IF activeSource = "file" THEN newFileContent ELSE <<>>

\* The right panel: a DiffViewer with the props it passes on, or a paragraph.
RightPanel ==
  IF activeSource = "file"
  THEN IF oldFile # NULL \/ newFile # NULL
       THEN [shows |-> "DiffViewer", diff |-> DiffViewer(oldFileContent, newFileContent)]
       ELSE [shows |-> "Select two files and click Compare and Update"]
  ELSE IF selectedFolderDiff # NULL
       THEN [shows |-> "DiffViewer", diff |-> DiffViewer(<<>>, <<>>)]
       ELSE [shows |-> "Run a comparison and select a file"]

\* components/CompareButton.jsx: disabled={disabled || loading}
CompareButtonDisabled(disabled, isLoading) == disabled \/ isLoading

FileButtonDisabled ==
  CompareButtonDisabled(oldFile = NULL \/ newFile = NULL,
                        loading /\ activeSource = "file")

FolderButtonDisabled ==
  CompareButtonDisabled(oldFolder = "" \/ newFolder = "",
                        loading /\ activeSource = "folder")

\* components/StatusBar.jsx: the text shown
StatusBar == IF status.message # <<>> THEN status.message ELSE <<"Ready">>

(***************************************************************************)
(* pages/Home.jsx: the state after the first render.                       *)
(***************************************************************************)
Init ==
  /\ oldFile = NULL
  /\ newFile = NULL
  /\ oldFileContent = <<>>
  /\ newFileContent = <<>>
  /\ fileSummary = ""
  /\ oldFolder = ""
  /\ newFolder = ""
  /\ folderResult = NULL
  /\ selectedFolderDiff = NULL
  /\ loading = FALSE
  /\ status = [type |-> "info", message |-> <<"Ready">>]
  /\ activeSource = "file"
  /\ readers = {}
  /\ fileCalls = <<>>
  /\ folderCalls = <<>>

(***************************************************************************)
(* File inputs and FileReader.                                             *)
(***************************************************************************)
\* readFileAsText(file, setter): a FileReader whose onload is pending.
\* readers holds the pending reads; two pending reads of the same file for
\* the same setter store the same text and count as one.
readFileAsText(file, setter) ==
  IF file = NULL THEN readers' = readers
  ELSE readers' = readers \cup {[file |-> file, setter |-> setter]}

handleOldFileChange(file) ==
  /\ oldFile' = file
  /\ readFileAsText(file, "setOldFileContent")
  /\ UNCHANGED <<newFile, oldFileContent, newFileContent, folderVars, viewVars, netVars>>

handleNewFileChange(file) ==
  /\ newFile' = file
  /\ readFileAsText(file, "setNewFileContent")
  /\ UNCHANGED <<oldFile, oldFileContent, newFileContent, folderVars, viewVars, netVars>>

\* reader.onload = (e) => setter(e.target?.result || "")
readerOnload(reader) ==
  /\ reader \in readers
  /\ IF reader.setter = "setOldFileContent"
     THEN oldFileContent' = FileText(reader.file) /\ UNCHANGED newFileContent
     ELSE newFileContent' = FileText(reader.file) /\ UNCHANGED oldFileContent
  /\ readers' = readers \ {reader}
  /\ UNCHANGED <<oldFile, newFile, folderVars, viewVars, netVars>>

\* The read fails: no onerror handler is set, so nothing is stored.
readerOnerror(reader) ==
  /\ reader \in readers
  /\ readers' = readers \ {reader}
  /\ UNCHANGED <<oldFile, newFile, oldFileContent, newFileContent, folderVars, viewVars, netVars>>

(***************************************************************************)
(* Folder path inputs: onChange={(e) => setOldFolder(e.target.value)}      *)
(***************************************************************************)
setOldFolder(path) ==
  /\ oldFolder' = path
  /\ UNCHANGED <<newFolder, fileVars, viewVars, netVars>>

setNewFolder(path) ==
  /\ newFolder' = path
  /\ UNCHANGED <<oldFolder, fileVars, viewVars, netVars>>

(***************************************************************************)
(* runFileCompare                                                          *)
(***************************************************************************)
\* s without its i-th element
RemoveAt(s, i) == SubSeq(s, 1, i - 1) \o SubSeq(s, i + 1, Len(s))

ErrorMessage(error, fallback) == JsOr(JsOr(error.detail, error.message), fallback)

\* The statements of runFileCompare from setActiveSource("file") to the await.
fileCompareStarts ==
  /\ Len(fileCalls) < MaxFileCalls
  /\ activeSource' = "file"
  /\ loading' = TRUE
  /\ status' = [type |-> "info", message |-> <<"Comparing files...">>]
  /\ fileSummary' = ""
  /\ fileCalls' = Append(fileCalls, compareFilesUpload(oldFile, newFile))
  /\ UNCHANGED <<folderResult, selectedFolderDiff, folderCalls, fileVars, folderVars>>

\* runFileCompare with setFileSummary("") moved above the validation.
runFileCompareResetsFirst ==
  IF oldFile = NULL \/ newFile = NULL
  THEN /\ status' = [type |-> "error",
                     message |-> <<"Please select both OLD and NEW files">>]
       /\ fileSummary' = ""
       /\ UNCHANGED <<folderResult, selectedFolderDiff, loading,
                      activeSource, fileVars, folderVars, netVars>>
  ELSE fileCompareStarts

\* runFileCompare up to its await.
runFileCompare ==
  IF oldFile = NULL \/ newFile = NULL
  THEN /\ status' = [type |-> "error",
                     message |-> <<"Please select both OLD and NEW files">>]
       /\ UNCHANGED <<fileSummary, folderResult, selectedFolderDiff, loading,
                      activeSource, fileVars, folderVars, netVars>>
  ELSE fileCompareStarts

\* The request of call i resolves: the try block after the await, then finally.
fileCompareResolved(i, data) ==
  /\ i \in 1..Len(fileCalls)
  /\ fileCalls' = RemoveAt(fileCalls, i)
  /\ fileSummary' = JsOr(data.summary, "File comparison completed")
  /\ status' = [type |-> "success",
                message |-> <<JsOr(data.summary, "File comparison completed")>>]
  /\ loading' = FALSE
  /\ UNCHANGED <<folderResult, selectedFolderDiff, activeSource, folderCalls,
                 fileVars, folderVars>>

\* The request of call i rejects: the catch block, then finally.
fileCompareRejected(i, error) ==
  /\ i \in 1..Len(fileCalls)
  /\ fileCalls' = RemoveAt(fileCalls, i)
  /\ status' = [type |-> "error",
                message |-> <<"Error: ", ErrorMessage(error, "Error during file comparison")>>]
  /\ loading' = FALSE
  /\ UNCHANGED <<fileSummary, folderResult, selectedFolderDiff, activeSource,
                 folderCalls, fileVars, folderVars>>

(***************************************************************************)
(* handleFolderCompare                                                     *)
(***************************************************************************)
AnyPending(calls) == \E j \in 1..Len(calls) : calls[j].state = "pending"

\* folderCalls holds the calls to compareFolders in the order they were
\* made, each with its request and the state of its promise; a settled call
\* is dropped once a later call has been made.
Prune(calls) ==
  LET keep == {j \in 1..Len(calls) : calls[j].state = "pending" \/ j = Len(calls)}
      F[j \in 0..Len(calls)] ==
        IF j = 0 THEN <<>> ELSE IF j \in keep THEN Append(F[j - 1], calls[j]) ELSE F[j - 1]
  IN F[Len(calls)]

PendingCount(calls) == Cardinality({j \in 1..Len(calls) : calls[j].state = "pending"})

\* A call is marked overlapped once another call is pending while it is.
MarkOverlapped(calls) ==
  [j \in 1..Len(calls) |->
     IF calls[j].state = "pending" THEN [calls[j] EXCEPT !.overlapped = TRUE]
     ELSE calls[j]]

\* handleFolderCompare up to its await.
handleFolderCompare ==
  IF oldFolder = "" \/ newFolder = ""
  THEN /\ status' = [type |-> "error",
                     message |-> <<"Please provide both OLD and NEW folder paths">>]
       /\ UNCHANGED <<fileSummary, folderResult, selectedFolderDiff, loading,
                      activeSource, fileVars, folderVars, netVars>>
  ELSE /\ PendingCount(folderCalls) < MaxFolderCalls
       /\ activeSource' = "folder"
       /\ loading' = TRUE
       /\ status' = [type |-> "info", message |-> <<"Comparing folders...">>]
       /\ folderResult' = NULL
       /\ selectedFolderDiff' = NULL
       /\ folderCalls' = Prune(Append(MarkOverlapped(folderCalls),
                                [request |-> compareFolders(oldFolder, newFolder),
                                 state |-> "pending",
                                 overlapped |-> AnyPending(folderCalls)]))
       /\ UNCHANGED <<fileSummary, fileCalls, fileVars, folderVars>>

\* data.file_diffs[0], the find left out
firstOfAll(diffs) == diffs[1]

\* data.file_diffs.find((fd) => fd.has_changes) || data.file_diffs[0]
firstWithChanges(diffs) ==
  IF \E k \in 1..Len(diffs) : diffs[k].has_changes
  THEN diffs[CHOOSE k \in 1..Len(diffs) :
               /\ diffs[k].has_changes
               /\ \A m \in 1..(k - 1) : ~diffs[m].has_changes]
  ELSE diffs[1]

\* folderCompareResolved with a setActiveSource("folder") after the await.
folderCompareResolvedSetsSource(i, data) ==
  /\ i \in 1..Len(folderCalls)
  /\ folderCalls[i].state = "pending"
  /\ folderCalls' = Prune([folderCalls EXCEPT ![i].state = "fulfilled"])
  /\ folderResult' = data
  /\ IF "file_diffs" \in DOMAIN data /\ Len(FileDiffsOf(data)) > 0
     THEN selectedFolderDiff' = firstWithChanges(data.file_diffs)
     ELSE UNCHANGED selectedFolderDiff
  /\ status' = [type |-> "success",
                message |-> <<"Compared ", ToString(data.total_components),
                              " components. Found changes in ",
                              ToString(data.components_with_changes), " components.">>]
  /\ loading' = FALSE
  /\ activeSource' = "folder"
  /\ UNCHANGED <<fileSummary, fileCalls, fileVars, folderVars>>

\* The request of call i resolves: the try block after the await, then finally.
folderCompareResolved(i, data) ==
  /\ i \in 1..Len(folderCalls)
  /\ folderCalls[i].state = "pending"
  /\ folderCalls' = Prune([folderCalls EXCEPT ![i].state = "fulfilled"])
  /\ folderResult' = data
  /\ IF "file_diffs" \in DOMAIN data /\ Len(FileDiffsOf(data)) > 0
     THEN selectedFolderDiff' = firstWithChanges(data.file_diffs)
     ELSE UNCHANGED selectedFolderDiff
  /\ status' = [type |-> "success",
                message |-> <<"Compared ", ToString(data.total_components),
                              " components. Found changes in ",
                              ToString(data.components_with_changes), " components.">>]
  /\ loading' = FALSE
  /\ UNCHANGED <<fileSummary, activeSource, fileCalls, fileVars, folderVars>>

\* folderCompareRejected with the setStatus of the catch block left out.
folderCompareRejectedSilently(i, error) ==
  /\ i \in 1..Len(folderCalls)
  /\ folderCalls[i].state = "pending"
  /\ folderCalls' = Prune([folderCalls EXCEPT ![i].state = "rejected"])
  /\ loading' = FALSE
  /\ UNCHANGED <<status, fileSummary, folderResult, selectedFolderDiff, activeSource,
                 fileCalls, fileVars, folderVars>>

\* The request of call i rejects: the catch block, then finally.
folderCompareRejected(i, error) ==
  /\ i \in 1..Len(folderCalls)
  /\ folderCalls[i].state = "pending"
  /\ folderCalls' = Prune([folderCalls EXCEPT ![i].state = "rejected"])
  /\ status' = [type |-> "error",
                message |-> <<"Error: ", ErrorMessage(error, "Error during folder comparison")>>]
  /\ loading' = FALSE
  /\ UNCHANGED <<fileSummary, folderResult, selectedFolderDiff, activeSource,
                 fileCalls, fileVars, folderVars>>

(***************************************************************************)
(* Clicks.                                                                 *)
(***************************************************************************)
\* The file section's CompareButton: onClick={runFileCompare}
clickFileCompare == ~FileButtonDisabled /\ runFileCompare

\* The folder section's CompareButton: onClick={handleFolderCompare}
clickFolderCompare == ~FolderButtonDisabled /\ handleFolderCompare

\* A file row of the folder tree:
\* onClick={() => { setActiveSource("folder"); setSelectedFolderDiff(fd); }}
clickTreeRow(c, idx) ==
  /\ activeSource' = "folder"
  /\ selectedFolderDiff' = TreeRows[c].files[idx]
  /\ UNCHANGED <<fileSummary, folderResult, loading, status, fileVars, folderVars, netVars>>

(***************************************************************************)
(* The page as the user drives it.                                         *)
(***************************************************************************)
\* The "Compare Two Files" section, the user picking among `files` (NULL
\* among them: the chooser closed with no file).
FileSection(files) ==
  \/ \E file \in files : handleOldFileChange(file)
  \/ \E file \in files : handleNewFileChange(file)
  \/ \E reader \in readers : readerOnload(reader)
  \/ \E reader \in readers : readerOnerror(reader)
  \/ clickFileCompare
  \/ \E i \in 1..Len(fileCalls), data \in FileResponses : fileCompareResolved(i, data)
  \/ \E i \in 1..Len(fileCalls), error \in Errors : fileCompareRejected(i, error)

\* The "Compare Two Folders" section, the user typing an OLD folder path
\* among `oldPaths`.
FolderSection(oldPaths) ==
  \/ \E path \in oldPaths : setOldFolder(path)
  \/ \E path \in NewPaths : setNewFolder(path)
  \/ clickFolderCompare
  \/ \E i \in 1..Len(folderCalls), data \in FolderResponses : folderCompareResolved(i, data)
  \/ \E i \in 1..Len(folderCalls), error \in Errors : folderCompareRejected(i, error)

\* The "Folder Results" panel.
TreePanel ==
  \E c \in 1..Len(TreeRows) : \E idx \in 1..Len(TreeRows[c].files) : clickTreeRow(c, idx)

\* The whole page.
Next == FileSection({EmptyFile}) \/ FolderSection(OldPaths) \/ TreePanel

Spec == Init /\ [][Next]_vars

\* The two sections, with two OLD folders to choose from.
NextPairs == FileSection({EmptyFile}) \/ FolderSection(OldPaths2)

SpecPairs == Init /\ [][NextPairs]_vars

\* The two comparison sections, the results panel left untouched.
NextSections == FileSection({EmptyFile}) \/ FolderSection(OldPaths)

\* The two sections with their handlers also called whatever the buttons
\* allow (a disabled button keeps the validation branch from running), the
\* user also taking a chosen file back.
NextHandlers ==
  \/ FileSection({NULL, EmptyFile}) \/ FolderSection(OldPaths)
  \/ runFileCompare \/ handleFolderCompare

SpecHandlers == Init /\ [][NextHandlers]_vars

\* Call i settles: its request resolves or rejects.
fileCallSettles(i) ==
  \/ \E data \in FileResponses : fileCompareResolved(i, data)
  \/ \E error \in Errors : fileCompareRejected(i, error)

folderCallSettles(i) ==
  \/ \E data \in FolderResponses : folderCompareResolved(i, data)
  \/ \E error \in Errors : folderCompareRejected(i, error)

\* Every issued request eventually resolves or rejects.  The oldest pending
\* file request is fileCalls[1]; the oldest folder call kept is
\* folderCalls[1], pending unless it is the only one.
RequestsSettle ==
  /\ WF_vars(fileCallSettles(1))
  /\ WF_vars(folderCallSettles(1))

FairSpec == Init /\ [][NextSections]_vars /\ RequestsSettle

\* The file section alone, with files at and over the viewer's cap.
NextFiles == FileSection({NULL, CapFile, OverFile})

SpecFiles == Init /\ [][NextFiles]_vars

(***************************************************************************)
(* Properties.                                                             *)
(***************************************************************************)
Truncated == Str(<<"[", "t", "r", "u", "n", "c", "a", "t", "e", "d", "]">>)

\* What the claim of the truncation boundary asks of one side of the viewer.
SideRespectsCap(text, shown) ==
  IF TextLen(text) <= MAX_CHARS
  THEN shown = text
  ELSE /\ TextLen(shown) > MAX_CHARS
       /\ Slice(shown, MAX_CHARS) = Slice(text, MAX_CHARS)
       /\ Contains(Drop(shown, MAX_CHARS), Truncated)

\* C1: in the file view, each side of the DiffViewer independently shows a
\* text of at most MAX_CHARS characters unchanged, and replaces a longer
\* text by its first MAX_CHARS characters followed by a marker that contains
\* "[truncated]".
C1_TruncationBoundary ==
  (activeSource = "file" /\ RightPanel.shows = "DiffViewer") =>
     /\ SideRespectsCap(oldFileContent, RightPanel.diff.oldValue)
     /\ SideRespectsCap(newFileContent, RightPanel.diff.newValue)

\* A text of exactly MAX_CHARS characters shown as it is beside a text of
\* MAX_CHARS + 1 characters shown cut and marked.
C1_Witness ==
  /\ activeSource = "file"
  /\ RightPanel.shows = "DiffViewer"
  /\ TextLen(oldFileContent) = MAX_CHARS
  /\ RightPanel.diff.oldValue = oldFileContent
  /\ TextLen(newFileContent) = MAX_CHARS + 1
  /\ RightPanel.diff.newValue = Concat(Rep("x", MAX_CHARS), TruncationMarker)

\* The urls of the requests the page has posted and still knows of.
PostedUrls ==
  {fileCalls[i].url : i \in 1..Len(fileCalls)}
    \cup {folderCalls[i].request.url : i \in 1..Len(folderCalls)}

\* C2: a click on the folder section's "Compare and Update" button leads to
\* a request that persists the results: the request it posts is the
\* compare-and-update one, or it is compare-folders and update-excel has
\* been posted by the time the comparison is done.
C2_ClickComparesAndUpdates ==
  \A i \in 1..Len(folderCalls) :
    \/ folderCalls[i].request.url = "/compare-and-update"
    \/ /\ folderCalls[i].request.url = "/compare-folders"
       /\ folderCalls[i].state = "fulfilled" => "/update-excel" \in PostedUrls

\* C3: right after the failure of a folder comparison request has been
\* handled, folderResult and selectedFolderDiff are null.
C3_FailureLeavesNoResult ==
  [][\A i \in 1..Len(folderCalls) : \A error \in Errors :
       folderCompareRejected(i, error) =>
         (folderResult' = NULL /\ selectedFolderDiff' = NULL)]_vars

\* C4: the response of an earlier folder comparison never overwrites that of
\* a later one for a different path pair: when a call resolves after a call
\* started later, for other paths, has already resolved, folderResult stays
\* what the later call made it.
C4_EarlierNeverOverwritesLater ==
  [][\A i \in 1..Len(folderCalls) : \A data \in FolderResponses :
       (/\ folderCompareResolved(i, data)
        /\ \E j \in (i + 1)..Len(folderCalls) :
              /\ folderCalls[j].state = "fulfilled"
              /\ folderCalls[j].request # folderCalls[i].request)
       => folderResult' = folderResult]_vars

\* C5: activeSource is "file" or "folder" in every state and "file" at
\* first; it becomes "file" only by a runFileCompare that passes validation,
\* and "folder" only by a handleFolderCompare that passes validation or by a
\* click on a row of the folder tree; no resolved or rejected request
\* changes it.
C5_ActiveSourceEnum ==
  /\ activeSource = "file"
  /\ [](activeSource \in {"file", "folder"})
  /\ [][(activeSource' # activeSource /\ activeSource' = "file") =>
          (oldFile # NULL /\ newFile # NULL /\ runFileCompare)]_vars
  /\ [][(activeSource' # activeSource /\ activeSource' = "folder") =>
          \/ (oldFolder # "" /\ newFolder # "" /\ handleFolderCompare)
          \/ \E c \in 1..Len(TreeRows) : \E idx \in 1..Len(TreeRows[c].files) :
               clickTreeRow(c, idx)]_vars
  /\ [][activeSource' # activeSource =>
          ~(\/ \E i \in 1..Len(fileCalls) :
                \/ \E data \in FileResponses : fileCompareResolved(i, data)
                \/ \E error \in Errors : fileCompareRejected(i, error)
            \/ \E i \in 1..Len(folderCalls) :
                \/ \E data \in FolderResponses : folderCompareResolved(i, data)
                \/ \E error \in Errors : folderCompareRejected(i, error))]_vars

\* The view went to "folder" (a folder comparison delivered its result) and
\* came back to "file" by a file comparison that is still running.
C5_Witness ==
  /\ activeSource = "file"
  /\ folderResult # NULL
  /\ fileCalls # <<>>

RECURSIVE FirstOccurrences(_)
\* the component names of a file_diffs sequence, each at its first occurrence
FirstOccurrences(diffs) ==
  IF diffs = <<>> THEN <<>>
  ELSE LET front == FirstOccurrences(Front(diffs))
           c == Last(diffs).component_name
       IN IF \E k \in 1..Len(front) : front[k] = c THEN front ELSE Append(front, c)

\* C6: the folder tree shows the components in the order of their first
\* occurrence in file_diffs, and under each component exactly the FileDiffs
\* of that component, in their file_diffs order.
C6_TreeKeepsOrder ==
  folderResult # NULL =>
    LET diffs == FileDiffsOf(folderResult)
    IN /\ [c \in 1..Len(TreeRows) |-> TreeRows[c].component] = FirstOccurrences(diffs)
       /\ \A c \in 1..Len(TreeRows) :
            TreeRows[c].files =
              SelectSeq(diffs, LAMBDA fd : fd.component_name = TreeRows[c].component)

\* C7: in the folder view, when the selected FileDiff has changes, the viewer
\* is given an old and a new text that differ.
C7_FolderViewShowsDiff ==
  (activeSource = "folder" /\ selectedFolderDiff # NULL /\ selectedFolderDiff.has_changes)
    => /\ RightPanel.shows = "DiffViewer"
       /\ RightPanel.diff.oldValue # RightPanel.diff.newValue

\* The selection the claim of the preselection expects for a response.
ExpectedSelection(data) ==
  LET diffs == FileDiffsOf(data)
      changed == {k \in 1..Len(diffs) : diffs[k].has_changes}
  IN IF diffs = <<>> THEN NULL
     ELSE IF changed = {} THEN diffs[1]
     ELSE diffs[CHOOSE k \in changed : \A m \in changed : k <= m]

\* C8: when a folder comparison that no other folder comparison overlapped
\* succeeds, selectedFolderDiff is the first FileDiff with changes, or the
\* first FileDiff when none has changes, or null when file_diffs is empty or
\* absent.
C8_Preselection ==
  [][\A i \in 1..Len(folderCalls) : \A data \in FolderResponses :
       (~folderCalls[i].overlapped /\ folderCompareResolved(i, data))
         => selectedFolderDiff' = ExpectedSelection(data)]_vars

\* A comparison that nothing overlapped has delivered a result whose first
\* FileDiff has no changes, and the second FileDiff, the first with changes,
\* is selected.
C8_Witness ==
  /\ Len(folderCalls) = 1
  /\ folderCalls[1].state = "fulfilled"
  /\ ~folderCalls[1].overlapped
  /\ folderResult = RespDigits
  /\ ~RespDigits.file_diffs[1].has_changes
  /\ selectedFolderDiff = RespDigits.file_diffs[2]
  /\ status.type = "success"

\* C9: a runFileCompare without both files, or a handleFolderCompare without
\* both folder paths, issues no request, sets the status to the error that
\* asks for both inputs, and leaves loading, activeSource, fileSummary,
\* folderResult and selectedFolderDiff as they were.
C9_ValidationOnlySetsStatus ==
  /\ [][((oldFile = NULL \/ newFile = NULL) /\ runFileCompare) =>
          /\ status'.type = "error"
          /\ status'.message = <<"Please select both OLD and NEW files">>
          /\ fileCalls' = fileCalls /\ folderCalls' = folderCalls
          /\ UNCHANGED <<loading, activeSource, fileSummary, folderResult,
                         selectedFolderDiff>>]_vars
  /\ [][((oldFolder = "" \/ newFolder = "") /\ handleFolderCompare) =>
          /\ status'.type = "error"
          /\ status'.message = <<"Please provide both OLD and NEW folder paths">>
          /\ fileCalls' = fileCalls /\ folderCalls' = folderCalls
          /\ UNCHANGED <<loading, activeSource, fileSummary, folderResult,
                         selectedFolderDiff>>]_vars

\* runFileCompare was refused for a missing file while a folder comparison
\* was running and an earlier file summary was on display: all of it is
\* still there.
C9_Witness ==
  /\ status = [type |-> "error", message |-> <<"Please select both OLD and NEW files">>]
  /\ (oldFile = NULL \/ newFile = NULL)
  /\ loading
  /\ activeSource = "folder"
  /\ fileSummary # ""
  /\ AnyPending(folderCalls)

\* The status bar shows that a comparison is running.
ProgressShown ==
  StatusBar \in {<<"Comparing files...">>, <<"Comparing folders...">>}

NoRequestInFlight == fileCalls = <<>> /\ ~AnyPending(folderCalls)

\* C10: whenever no request is in flight the status is not the in-progress
\* status, and, every request settling eventually, an in-progress status is
\* eventually followed by a status of type success or error.
C10_StatusReportsOutcome ==
  /\ [](NoRequestInFlight => ~ProgressShown)
  /\ ProgressShown ~> (status.type \in {"success", "error"})

\* A file comparison and two overlapping folder comparisons ran, all are
\* done, and the status bar shows an outcome.
C10_Witness ==
  /\ NoRequestInFlight
  /\ Len(folderCalls) = 1
  /\ folderCalls[1].overlapped
  /\ fileSummary # ""
  /\ status.type \in {"success", "error"}

\* No comparison has been started yet: every runFileCompare and
\* handleFolderCompare that passes validation replaces the initial status,
\* and no setStatus call ever writes "Ready" again.
NothingRequestedYet ==
  /\ status = [type |-> "info", message |-> <<"Ready">>]
  /\ fileCalls = <<>>
  /\ ~loading

\* C11: in the file view the right panel renders the DiffViewer only if both
\* an OLD and a NEW file are selected and a file comparison has been started
\* (so the status is no longer the initial one); otherwise it shows the
\* placeholder text.
C11_FileDiffOnlyAfterCompare ==
  (activeSource = "file" /\ RightPanel.shows = "DiffViewer")
    => (oldFile # NULL /\ newFile # NULL /\ ~NothingRequestedYet)

\* C12: a compare button is disabled for as long as a comparison it started
\* is in flight, so at most one file comparison request and at most one
\* folder comparison request are in flight at any time.
C12_NoDoubleSubmission ==
  /\ fileCalls # <<>> => FileButtonDisabled
  /\ AnyPending(folderCalls) => FolderButtonDisabled
  /\ Len(fileCalls) <= 1
  /\ PendingCount(folderCalls) <= 1

====
